---- MODULE Spec2Model ----
(***************************************************************************)
(* A model of gov_docs_helper: the weeding-set index (weeding_set.py), the *)
(* FDLP reference search (fdlp_reference.py) and the chunked writer of the *)
(* unmatched rows (writers.py).                                            *)
(*                                                                         *)
(* A Python str is a sequence of one-character strings, a CSV row is a     *)
(* sequence of such strs, a file is a sequence of rows.  A dict whose      *)
(* iteration order the code relies on is a sequence of [key, value]        *)
(* entries in insertion order.                                             *)
(***************************************************************************)
EXTENDS Integers, Sequences, FiniteSets, Bags, TLC

VARIABLES
    pc,                              \* position of the running call
    err,                             \* the exception that ended the run, or NoError
    \* ---- WeedingSet (weeding_set.py)
    weeding_set_file,                \* rows of the CSV file, header row first
    sudoc_number_header,             \* self._sudoc_number_header
    row_number,                      \* enumerate(reader, 2): number of the next row
    sudoc_numbers,                   \* self.sudoc_numbers
    sudoc_number_to_row_nums,        \* self.sudoc_number_to_row_nums
    sudoc_row_num_to_row,            \* self.sudoc_row_num_to_row
    \* ---- FDLPSearcher (fdlp_reference.py)
    reference_docs,                  \* self.reference_docs
    scu_sudoc_row_nums_for_matches,  \* self.scu_sudoc_row_nums_for_matches
    scu_rows_not_matched,            \* self.scu_rows_not_matched
    scu_rows_matched,                \* self.scu_rows_matched
    num_searches,                    \* calls of search_fdlp_references so far
    matched_files,                   \* the files write_matches_to_file wrote
    \* ---- write_weeding_set_file_rows_not_matched (writers.py)
    weeding_set_rows_not_matched,    \* argument
    headers_row,                     \* argument
    max_rows,                        \* argument
    next_row,                        \* position of the for loop in the argument
    file_index,                      \* local
    rows_to_write,                   \* local
    files_written                    \* the files in not_matches_dir, in write order

ws_vars == <<weeding_set_file, sudoc_number_header, row_number, sudoc_numbers,
             sudoc_number_to_row_nums, sudoc_row_num_to_row>>
searcher_vars == <<reference_docs, scu_sudoc_row_nums_for_matches,
                   scu_rows_not_matched, scu_rows_matched, num_searches>>
writer_vars == <<weeding_set_rows_not_matched, headers_row, max_rows, next_row,
                 file_index, rows_to_write, files_written>>
out_vars == <<matched_files>>
vars == <<pc, err, ws_vars, searcher_vars, out_vars, writer_vars>>

----------------------------------------------------------------------------
(* Bounds of the model.                                                    *)

MaxUnmatched == 7       \* longest unmatched partition, scenario apart
MaxMaxRows == 4         \* largest max_rows, default apart
MaxWsRows == 2          \* content rows of the enumerated weeding-set files
MaxDocs == 2            \* reference documents of one search
MaxSearches == 2        \* calls of search_fdlp_references on one searcher

----------------------------------------------------------------------------
(* Strings.                                                                *)

Digits == <<"0", "1", "2", "3", "4", "5", "6", "7", "8", "9">>

NoError == "none"

\* f"{row_number}" for a non-negative int
RECURSIVE FormatInt(_)
FormatInt(n) ==
    IF n < 10 THEN <<Digits[n + 1]>>
    ELSE FormatInt(n \div 10) \o <<Digits[(n % 10) + 1]>>

\* str literals
Str_Document_Number ==
    <<"D", "o", "c", "u", "m", "e", "n", "t", " ", "N", "u", "m", "b", "e", "r">>
Str_Title == <<"T", "i", "t", "l", "e">>
Str_SuDoc == <<"S", "u", "D", "o", "c">>
Str_Other == <<"L", "C">>
Str_Empty == <<>>
Str_A_123 == <<"A", " ", "1", "2", "3">>
Str_A123 == <<"A", "1", "2", "3">>
Str_B_4 == <<"B", " ", "4">>
Str_C9 == <<"C", "9">>
Str_FDLP_Row == <<"F", "D", "L", "P", " ", "R", "o", "w">>
Str_SCU_Rows == <<"S", "C", "U", " ", "R", "o", "w", "(", "s", ")">>
Str_X == <<"X">>
Str_Y == <<"Y">>

\* None, where a str, a row or an int is expected
NoneStr == <<"None">>
NoneRow == <<NoneStr>>
NoneInt == 0 - 1

\* int(s): the value of a non-empty string of decimal digits, NoneInt where
\* int() raises ValueError
DigitValue(c) == (CHOOSE d \in 1..10 : Digits[d] = c) - 1
IsDigit(c) == \E d \in 1..10 : Digits[d] = c
RECURSIVE ParseDigits(_, _)
ParseDigits(s, acc) ==
    IF s = <<>> THEN acc
    ELSE ParseDigits(Tail(s), acc * 10 + DigitValue(Head(s)))
ParseInt(s) ==
    IF s # <<>> /\ \A i \in 1..Len(s) : IsDigit(s[i])
    THEN ParseDigits(s, 0)
    ELSE NoneInt

\* s.split(","): the fragments between the commas, empty ones included
RECURSIVE SplitFrom(_, _, _)
SplitFrom(s, i, current) ==
    IF i > Len(s) THEN <<current>>
    ELSE IF s[i] = "," THEN <<current>> \o SplitFrom(s, i + 1, <<>>)
    ELSE SplitFrom(s, i + 1, Append(current, s[i]))
Split(s) == SplitFrom(s, 1, <<>>)

----------------------------------------------------------------------------
(* utils.py                                                                *)

simplify_sudoc_number_Mutant(sudoc_number) == sudoc_number
simplify_sudoc_number(sudoc_number) ==
    SelectSeq(sudoc_number, LAMBDA c : c # " ")

----------------------------------------------------------------------------
(* dict and list primitives                                                *)

EmptyDict == [k \in {} |-> <<>>]

\* d[key] = value on a dict without iteration order
DictPut(d, key, value) ==
    [k \in (DOMAIN d) \cup {key} |-> IF k = key THEN value ELSE d[k]]

\* d[key] = value on an insertion-ordered dict: a new key goes last, a known
\* key keeps its place
OrderedKeys(d) == {d[i].key : i \in 1..Len(d)}
OrderedPut(d, key, value) ==
    IF key \in OrderedKeys(d)
    THEN [i \in 1..Len(d) |->
             IF d[i].key = key THEN [key |-> key, value |-> value] ELSE d[i]]
    ELSE Append(d, [key |-> key, value |-> value])
OrderedGet(d, key) ==
    (CHOOSE e \in {d[i] : i \in 1..Len(d)} : e.key = key).value

\* list.index(x): the first 0-based position of x, NoneInt where index()
\* raises ValueError
ListIndex(list, x) ==
    IF \E i \in 1..Len(list) : list[i] = x
    THEN (CHOOSE i \in 1..Len(list) :
             list[i] = x /\ \A j \in 1..(i - 1) : list[j] # x) - 1
    ELSE NoneInt

\* all sequences over S of length at most n
SeqsUpTo(S, n) == UNION {[1..k -> S] : k \in 0..n}

----------------------------------------------------------------------------
(* weeding_set.py: WeedingSet                                              *)

\* the first content row is numbered 2 (enumerate(reader, 2))
FirstRowNumber == 2

WsRowChoices == {<<Str_A_123, Str_X>>, <<Str_B_4, Str_X>>}

WsStandardHeaders == <<Str_Document_Number, Str_Title>>

\* files of other shapes: two spellings of one number, the number column
\* second, a row too short for the number column, the number column absent
\* (with no, one and two content rows), and a file long enough for two-digit
\* row numbers
WsLongRows ==
    [i \in 1..10 |-> IF i % 3 = 1 THEN <<Str_A_123, Str_X>>
                     ELSE IF i % 3 = 2 THEN <<Str_B_4, Str_X>>
                     ELSE <<Str_A123, Str_Y>>]
ExtraWeedingSetFiles ==
    { <<WsStandardHeaders, <<Str_A_123, Str_X>>, <<Str_A123, Str_Y>>>>,
      <<<<Str_Title, Str_Document_Number>>, <<Str_X, Str_A_123>>, <<Str_Y, Str_A123>>>>,
      <<<<Str_Title, Str_Document_Number>>, <<Str_X, Str_B_4>>, <<Str_A123>>>>,
      <<<<Str_Title>>>>,
      <<<<Str_Title>>, <<Str_A123>>>>,
      <<<<Str_Title, Str_X>>, <<Str_A123, Str_Y>>, <<Str_B_4, Str_X>>>>,
      <<WsStandardHeaders>> \o WsLongRows }

WeedingSetFiles ==
    {<<WsStandardHeaders>> \o rows : rows \in SeqsUpTo(WsRowChoices, MaxWsRows)}
        \cup ExtraWeedingSetFiles

\* the rows value after "+= f',{row_number}'" or the first "= f'{row_number}'"
RecordRowNumber_Mutant(existing_rows, n) == FormatInt(n)
RecordRowNumber_TrailingComma(existing_rows, n) ==
    IF existing_rows = NoneStr THEN FormatInt(n) \o <<",">>
    ELSE existing_rows \o FormatInt(n) \o <<",">>
RecordRowNumber(existing_rows, n) ==
    IF existing_rows = NoneStr THEN FormatInt(n)
    ELSE existing_rows \o <<",">> \o FormatInt(n)

\* "self.sudoc_row_num_to_row[row_number] = row"
StoreRow_Mutant(d, n, row) == OrderedPut(d, n - 1, row)
StoreRow(d, n, row) == OrderedPut(d, n, row)

\* dict.get(key, None)
GetOrNone(d, key) == IF key \in DOMAIN d THEN d[key] ELSE NoneStr

\* one iteration of "for row_number, row in enumerate(reader, 2)"
WeedingSet_read_row ==
    /\ pc = "ws_read"
    /\ row_number <= Len(weeding_set_file)
    /\ LET weeding_set_headers == weeding_set_file[1]
           row == weeding_set_file[row_number]
           column == ListIndex(weeding_set_headers, sudoc_number_header)
       IN
       /\ sudoc_row_num_to_row' = StoreRow(sudoc_row_num_to_row, row_number, row)
       /\ IF column = NoneInt
          THEN /\ pc' = "raised"
               /\ err' = "ValueError"
               /\ UNCHANGED <<row_number, sudoc_numbers, sudoc_number_to_row_nums>>
          ELSE IF column >= Len(row)
          THEN /\ pc' = "raised"
               /\ err' = "IndexError"
               /\ UNCHANGED <<row_number, sudoc_numbers, sudoc_number_to_row_nums>>
          ELSE LET simplified_sudoc_number == simplify_sudoc_number(row[column + 1])
                   existing_rows ==
                       GetOrNone(sudoc_number_to_row_nums, simplified_sudoc_number)
               IN
               /\ sudoc_numbers' = sudoc_numbers \cup {simplified_sudoc_number}
               /\ sudoc_number_to_row_nums' =
                      DictPut(sudoc_number_to_row_nums, simplified_sudoc_number,
                              RecordRowNumber(existing_rows, row_number))
               /\ row_number' = row_number + 1
               /\ UNCHANGED <<pc, err>>
    /\ UNCHANGED <<weeding_set_file, sudoc_number_header, searcher_vars, writer_vars, out_vars>>

\* the reader is exhausted: WeedingSet.__init__ returns and FDLPSearcher.__init__
\* takes the weeding set
WeedingSet_built ==
    /\ pc = "ws_read"
    /\ row_number > Len(weeding_set_file)
    /\ pc' = "ready"
    /\ reference_docs' = <<>>
    /\ scu_sudoc_row_nums_for_matches' = {}
    /\ scu_rows_not_matched' = <<>>
    /\ scu_rows_matched' = <<>>
    /\ UNCHANGED <<err, ws_vars, num_searches, writer_vars, out_vars>>


----------------------------------------------------------------------------
(* fdlp_reference.py: FDLPReferenceDoc, _SearcherReferenceDoc, FDLPSearcher *)

\* the defaults the docstring of FDLPReferenceDoc gives its columns
DefaultSudocNumberColumnIndex == 2
DefaultClassificationTypeColumnIndex == 1

DocRow_A_123 == <<Str_X, Str_SuDoc, Str_A_123>>
DocRow_A123_Other == <<Str_Y, Str_Other, Str_A123>>
DocRow_B4 == <<Str_X, Str_SuDoc, <<"B", "4">>>>
DocRow_C9 == <<Str_X, Str_SuDoc, Str_C9>>
DocRow_B_4_NoType == <<Str_Y, Str_Empty, Str_B_4>>

\* the contents of the reference files
DocFiles ==
    { <<DocRow_A_123, DocRow_A123_Other, DocRow_B4>>,
      <<DocRow_C9, DocRow_A_123, DocRow_A123_Other>>,
      <<DocRow_A123_Other, DocRow_C9, DocRow_B_4_NoType>> }

\* (skip_rows, header_row_index, classification_type) of the documents
DocSettings ==
    { <<1, 0, Str_SuDoc>>,
      <<0, NoneInt, NoneStr>>,
      <<0, 1, Str_Empty>>,
      <<2, 0, Str_SuDoc>> }

FDLPReferenceDoc(file, settings) ==
    [ file |-> file,
      skip_rows |-> settings[1],
      sudoc_number_column_index |-> DefaultSudocNumberColumnIndex,
      classification_type |-> settings[3],
      classification_type_column_index |-> DefaultClassificationTypeColumnIndex,
      header_row_index |-> settings[2] ]

FDLPReferenceDocs ==
    {FDLPReferenceDoc(file, settings) : file \in DocFiles, settings \in DocSettings}

\* _SearcherReferenceDoc.__init__
SearcherReferenceDoc(reference_doc) ==
    [ file |-> reference_doc.file,
      skip_rows |-> reference_doc.skip_rows,
      sudoc_number_column_index |-> reference_doc.sudoc_number_column_index,
      classification_type |-> reference_doc.classification_type,
      classification_type_column_index |->
          reference_doc.classification_type_column_index,
      header_row_index |-> reference_doc.header_row_index,
      headers |-> NoneRow,
      rows_of_interest |-> <<>> ]

\* "if reference_doc.classification_type:" - the truth value of an Optional[str]
TypeFilterOn(classification_type) ==
    classification_type # NoneStr /\ classification_type # Str_Empty

\* "header_row_index is not None and fdlp_row_index == header_row_index"
IsHeaderRow_Mutant(reference_doc, fdlp_row_index) == FALSE
IsHeaderRow(reference_doc, fdlp_row_index) ==
    /\ reference_doc.header_row_index # NoneInt
    /\ fdlp_row_index = reference_doc.header_row_index

\* the ints of sudoc_number_to_row_nums[number].split(","); NoneInt stands for a
\* fragment int() rejects
RowNumsOf_Mutant(row_nums) == {ParseInt(Split(row_nums)[1])}
RowNumsOf(row_nums) ==
    LET rows_nums == Split(row_nums) IN
    {ParseInt(rows_nums[i]) : i \in 1..Len(rows_nums)}

\* "simplified_sudoc_number in self.weeding_set.sudoc_numbers"
InWeedingSet(number) == number \in sudoc_numbers

\* the body of "for fdlp_row_index, row in enumerate(reader)" on the state
\* st = [doc, matches, err] of the scan
ScanRow(st, fdlp_row_index, row) ==
    LET reference_doc == st.doc IN
    IF IsHeaderRow(reference_doc, fdlp_row_index)
    THEN [st EXCEPT !.doc.headers = row]
    ELSE IF fdlp_row_index < reference_doc.skip_rows
    THEN st
    ELSE IF /\ TypeFilterOn(reference_doc.classification_type)
            /\ reference_doc.classification_type_column_index >= Len(row)
    THEN [st EXCEPT !.err = "IndexError"]
    ELSE IF /\ TypeFilterOn(reference_doc.classification_type)
            /\ row[reference_doc.classification_type_column_index + 1]
                   # reference_doc.classification_type
    THEN st
    ELSE IF reference_doc.sudoc_number_column_index >= Len(row)
    THEN [st EXCEPT !.err = "IndexError"]
    ELSE
    LET simplified_sudoc_number ==
            simplify_sudoc_number(row[reference_doc.sudoc_number_column_index + 1])
    IN
    IF ~InWeedingSet(simplified_sudoc_number)
    THEN st
    ELSE
    LET recorded ==
            [st EXCEPT !.doc.rows_of_interest =
                OrderedPut(reference_doc.rows_of_interest, fdlp_row_index, row)]
    IN
    IF simplified_sudoc_number \notin DOMAIN sudoc_number_to_row_nums
    THEN [recorded EXCEPT !.err = "KeyError"]
    ELSE
    LET nums == RowNumsOf(sudoc_number_to_row_nums[simplified_sudoc_number]) IN
    IF NoneInt \in nums
    THEN [recorded EXCEPT !.err = "ValueError"]
    ELSE [recorded EXCEPT !.matches = st.matches \cup nums]

\* the loop over the rows of the file from 0-based index fdlp_row_index on; an
\* exception ends it
RECURSIVE ScanFrom(_, _)
ScanFrom(st, fdlp_row_index) ==
    IF fdlp_row_index >= Len(st.doc.file) \/ st.err # NoError
    THEN st
    ELSE ScanFrom(ScanRow(st, fdlp_row_index, st.doc.file[fdlp_row_index + 1]),
                  fdlp_row_index + 1)

\* the state a scan starts in: a new _SearcherReferenceDoc and the searcher's
\* set of matched row numbers as it stands
ScanStart_Mutant(fdlp_reference_doc) ==
    [doc |-> SearcherReferenceDoc(fdlp_reference_doc),
     matches |-> {},
     err |-> NoError]
ScanStart(fdlp_reference_doc) ==
    [doc |-> SearcherReferenceDoc(fdlp_reference_doc),
     matches |-> scu_sudoc_row_nums_for_matches,
     err |-> NoError]

\* a _reset that leaves the accumulated results in place
FDLPSearcher_reset_Mutant ==
    /\ pc \in {"ready", "search_done"}
    /\ num_searches < MaxSearches
    /\ reference_docs' = <<>>
    /\ num_searches' = num_searches + 1
    /\ pc' = "search_scan"
    /\ UNCHANGED <<err, ws_vars, scu_sudoc_row_nums_for_matches,
                   scu_rows_not_matched, scu_rows_matched, writer_vars, out_vars>>

\* search_fdlp_references, first statement: self._reset()
FDLPSearcher_reset ==
    /\ pc \in {"ready", "search_done"}
    /\ num_searches < MaxSearches
    /\ reference_docs' = <<>>
    /\ scu_sudoc_row_nums_for_matches' = {}
    /\ scu_rows_not_matched' = <<>>
    /\ scu_rows_matched' = <<>>
    /\ num_searches' = num_searches + 1
    /\ pc' = "search_scan"
    /\ UNCHANGED <<err, ws_vars, writer_vars, out_vars>>

\* search_fdlp_references, one iteration of "for reference_doc in
\* fdlp_reference_docs": self._read_from_file(reference_doc)
FDLPSearcher_read_from_file ==
    /\ pc = "search_scan"
    /\ Len(reference_docs) < MaxDocs
    /\ \E fdlp_reference_doc \in FDLPReferenceDocs :
          LET end == ScanFrom(ScanStart(fdlp_reference_doc), 0)
          IN
          /\ reference_docs' = Append(reference_docs, end.doc)
          /\ scu_sudoc_row_nums_for_matches' = end.matches
          /\ err' = end.err
          /\ pc' = IF end.err = NoError THEN "search_scan" ELSE "raised"
    /\ UNCHANGED <<ws_vars, scu_rows_not_matched, scu_rows_matched, num_searches,
                   writer_vars, out_vars>>

\* "if scu_row_num in self.scu_sudoc_row_nums_for_matches"
IsMatchedRowNum_Mutant(scu_row_num) ==
    scu_row_num \notin scu_sudoc_row_nums_for_matches
IsMatchedRowNum(scu_row_num) == scu_row_num \in scu_sudoc_row_nums_for_matches

\* the body of "for scu_row_num, row in ...items()" on parts = [matched,
\* not_matched]
SeparateRow_Mutant(parts, scu_row_num, row) ==
    IF IsMatchedRowNum(scu_row_num)
    THEN [parts EXCEPT !.matched = Append(@, row), !.not_matched = Append(@, row)]
    ELSE [parts EXCEPT !.not_matched = Append(@, row)]
SeparateRow(parts, scu_row_num, row) ==
    IF IsMatchedRowNum(scu_row_num)
    THEN [parts EXCEPT !.matched = Append(@, row)]
    ELSE [parts EXCEPT !.not_matched = Append(@, row)]

\* _separate_rows: the loop over sudoc_row_num_to_row from entry i on, in
\* insertion order
RECURSIVE SeparateFrom(_, _)
SeparateFrom(parts, i) ==
    IF i > Len(sudoc_row_num_to_row) THEN parts
    ELSE SeparateFrom(SeparateRow(parts, sudoc_row_num_to_row[i].key,
                                  sudoc_row_num_to_row[i].value), i + 1)

\* search_fdlp_references, after the loop: self._separate_rows()
FDLPSearcher_separate_rows ==
    /\ pc = "search_scan"
    /\ LET parts == SeparateFrom([matched |-> scu_rows_matched,
                                  not_matched |-> scu_rows_not_matched], 1)
       IN
       /\ scu_rows_matched' = parts.matched
       /\ scu_rows_not_matched' = parts.not_matched
    /\ pc' = "search_done"
    /\ UNCHANGED <<err, ws_vars, reference_docs, scu_sudoc_row_nums_for_matches,
                   num_searches, writer_vars, out_vars>>

\* "simplify_sudoc_number(doc_row[reference_doc.sudoc_number_column_index])"
MatchedSudocNum_Mutant(reference_doc, doc_row) ==
    doc_row[reference_doc.sudoc_number_column_index + 1]
MatchedSudocNum(reference_doc, doc_row) ==
    simplify_sudoc_number(doc_row[reference_doc.sudoc_number_column_index + 1])

\* "if reference_doc.headers:" - the truth value of an Optional[List[str]]
HasHeaders(reference_doc) ==
    reference_doc.headers # NoneRow /\ reference_doc.headers # <<>>

\* the rows of one output file: the loop over rows_of_interest.items() from
\* entry i on, appended to out = [rows, err]; csv writes the int row_number
\* as its decimal str; a failed dict lookup ends the loop
RECURSIVE MatchesRowsFrom(_, _, _)
MatchesRowsFrom(reference_doc, out, i) ==
    IF i > Len(reference_doc.rows_of_interest) \/ out.err # NoError THEN out
    ELSE LET fdlp_row_number == reference_doc.rows_of_interest[i].key
             doc_row == reference_doc.rows_of_interest[i].value
             sudoc_num == MatchedSudocNum(reference_doc, doc_row)
         IN
         IF sudoc_num \notin DOMAIN sudoc_number_to_row_nums
         THEN [out EXCEPT !.err = "KeyError"]
         ELSE MatchesRowsFrom(reference_doc,
                  [out EXCEPT !.rows = Append(@, doc_row \o
                      <<FormatInt(fdlp_row_number),
                        sudoc_number_to_row_nums[sudoc_num]>>)],
                  i + 1)

MatchesRows(reference_doc) ==
    MatchesRowsFrom(reference_doc,
        [rows |-> IF HasHeaders(reference_doc)
                  THEN <<reference_doc.headers \o <<Str_FDLP_Row, Str_SCU_Rows>>>>
                  ELSE <<>>,
         err |-> NoError],
        1)

\* the loop over enumerate(self.reference_docs) from document d on; a file is
\* written once its rows are complete
RECURSIVE MatchesFilesFrom(_, _)
MatchesFilesFrom(out, d) ==
    IF d > Len(reference_docs) \/ out.err # NoError THEN out
    ELSE LET file == MatchesRows(reference_docs[d]) IN
         IF file.err # NoError
         THEN [out EXCEPT !.err = file.err]
         ELSE MatchesFilesFrom([out EXCEPT !.files = Append(@, file.rows)], d + 1)

\* write_matches_to_file, called on a searcher at rest; the run ends with it
FDLPSearcher_write_matches_to_file ==
    /\ pc \in {"ready", "search_done"}
    /\ LET out == MatchesFilesFrom([files |-> <<>>, err |-> NoError], 1) IN
       /\ matched_files' = out.files
       /\ err' = out.err
       /\ pc' = IF out.err = NoError THEN "matches_written" ELSE "raised"
    /\ UNCHANGED <<ws_vars, searcher_vars, writer_vars>>

----------------------------------------------------------------------------
(* writers.py: write_weeding_set_file_rows_not_matched                     *)

DefaultMaxRows == 250
DefaultStartIndex == 1

\* the test of the loop: "if we haven't reached our limit"
HasRoom_Mutant(rows, limit) == Len(rows) <= limit - 1
HasRoom(rows, limit) == Len(rows) < limit - 1

\* write_out: one file, the header row and then the rows
WriteOut(rows, index) ==
    [file_index |-> index, rows |-> <<headers_row>> \o rows]

\* one iteration of "for row in weeding_set_rows_not_matched"
WriterLoop ==
    /\ pc = "writer_loop"
    /\ next_row <= Len(weeding_set_rows_not_matched)
    /\ LET row == weeding_set_rows_not_matched[next_row] IN
       IF HasRoom(rows_to_write, max_rows)
       THEN /\ rows_to_write' = Append(rows_to_write, row)
            /\ UNCHANGED <<file_index, files_written>>
       ELSE /\ files_written' =
                  Append(files_written, WriteOut(rows_to_write, file_index))
            /\ rows_to_write' = <<>>
            /\ file_index' = file_index + 1
    /\ next_row' = next_row + 1
    /\ UNCHANGED <<pc, err, ws_vars, searcher_vars, out_vars,
                   weeding_set_rows_not_matched, headers_row, max_rows>>

\* "if len(rows_to_write) > 0"
HasRowsLeft_Mutant(rows) == TRUE
HasRowsLeft(rows) == Len(rows) > 0

\* after the loop: "if we have any rows left unwritten"
WriterFinish ==
    /\ pc = "writer_loop"
    /\ next_row > Len(weeding_set_rows_not_matched)
    /\ IF HasRowsLeft(rows_to_write)
       THEN /\ files_written' =
                  Append(files_written, WriteOut(rows_to_write, file_index))
            /\ rows_to_write' = <<>>
            /\ file_index' = file_index + 1
       ELSE UNCHANGED <<files_written, rows_to_write, file_index>>
    /\ pc' = "writer_done"
    /\ UNCHANGED <<err, ws_vars, searcher_vars, out_vars,
                   weeding_set_rows_not_matched, headers_row, max_rows, next_row>>

\* the unmatched partitions handed to the writer: n distinct one-cell rows
UnmatchedRows(n) == [i \in 1..n |-> <<FormatInt(i)>>]

ScenarioUnmatched == {600}

WriterLengths == (0..MaxUnmatched) \cup ScenarioUnmatched
WriterMaxRows == (1..MaxMaxRows) \cup {DefaultMaxRows}

WriterInit ==
    /\ pc = "writer_loop"
    /\ err = NoError
    /\ weeding_set_file = <<>>
    /\ sudoc_number_header = Str_Document_Number
    /\ row_number = FirstRowNumber
    /\ sudoc_numbers = {}
    /\ sudoc_number_to_row_nums = EmptyDict
    /\ sudoc_row_num_to_row = <<>>
    /\ reference_docs = <<>>
    /\ scu_sudoc_row_nums_for_matches = {}
    /\ scu_rows_not_matched = <<>>
    /\ scu_rows_matched = <<>>
    /\ num_searches = 0
    /\ matched_files = <<>>
    /\ \E n \in WriterLengths : weeding_set_rows_not_matched = UnmatchedRows(n)
    /\ headers_row = <<Str_Document_Number>>
    /\ max_rows \in WriterMaxRows
    /\ next_row = 1
    /\ file_index = DefaultStartIndex
    /\ rows_to_write = <<>>
    /\ files_written = <<>>

WriterNext == WriterLoop \/ WriterFinish

SpecWriter == WriterInit /\ [][WriterNext]_vars

----------------------------------------------------------------------------
(* The run: the weeding set is read, then searches are made.               *)

Init ==
    /\ pc = "ws_read"
    /\ err = NoError
    /\ weeding_set_file \in WeedingSetFiles
    /\ sudoc_number_header = Str_Document_Number
    /\ row_number = FirstRowNumber
    /\ sudoc_numbers = {}
    /\ sudoc_number_to_row_nums = EmptyDict
    /\ sudoc_row_num_to_row = <<>>
    /\ reference_docs = <<>>
    /\ scu_sudoc_row_nums_for_matches = {}
    /\ scu_rows_not_matched = <<>>
    /\ scu_rows_matched = <<>>
    /\ num_searches = 0
    /\ matched_files = <<>>
    /\ weeding_set_rows_not_matched = <<>>
    /\ headers_row = <<>>
    /\ max_rows = DefaultMaxRows
    /\ next_row = 1
    /\ file_index = DefaultStartIndex
    /\ rows_to_write = <<>>
    /\ files_written = <<>>

Next ==
    \/ WeedingSet_read_row
    \/ WeedingSet_built
    \/ FDLPSearcher_reset
    \/ FDLPSearcher_read_from_file
    \/ FDLPSearcher_separate_rows
    \/ FDLPSearcher_write_matches_to_file

Spec == Init /\ [][Next]_vars

----------------------------------------------------------------------------
(* Properties of the chunked writer (under SpecWriter).                    *)

\* the file of not_matches_dir whose name carries index i
FileWithIndex(i) == CHOOSE f \in {files_written[j] : j \in 1..Len(files_written)} :
                        f.file_index = i

\* the rows of a file after its first (header) row
DataRows(f) == Tail(f.rows)

\* the data rows of the files with indices from..to, in increasing index order
RECURSIVE ConcatDataRows(_, _)
ConcatDataRows(from, to) ==
    IF from > to THEN <<>>
    ELSE DataRows(FileWithIndex(from)) \o ConcatDataRows(from + 1, to)

AllDataRows ==
    ConcatDataRows(DefaultStartIndex, DefaultStartIndex + Len(files_written) - 1)

DataRowCounts == [j \in 1..Len(files_written) |-> Len(DataRows(files_written[j]))]

\* C1: for every unmatched partition and every max_rows >= 2, the data rows of
\* the chunk files, concatenated in increasing file-index order, are exactly
\* the unmatched partition (nothing dropped, duplicated or reordered).
C1_RoundTrip ==
    (pc = "writer_done" /\ max_rows >= 2)
        => AllDataRows = weeding_set_rows_not_matched

\* C2: max_rows = 250 and 600 unmatched rows give exactly 3 files with 249,
\* 249 and 102 data rows, each after one header row.
C2_Scenario600 ==
    (pc = "writer_done" /\ max_rows = DefaultMaxRows
        /\ Len(weeding_set_rows_not_matched) = 600)
        => /\ DataRowCounts = <<249, 249, 102>>
           /\ \A j \in 1..Len(files_written) :
                  Head(files_written[j].rows) = headers_row

\* C10: every file written begins with the header row and holds at most
\* max_rows - 1 data rows, and every file but the last written holds exactly
\* max_rows - 1 data rows.
C10_ChunkShape ==
    \A j \in 1..Len(files_written) :
        LET f == files_written[j] IN
        /\ Len(f.rows) >= 1
        /\ Head(f.rows) = headers_row
        /\ Len(DataRows(f)) <= max_rows - 1
        /\ Len(f.rows) <= max_rows
        /\ j < Len(files_written) => Len(DataRows(f)) = max_rows - 1

\* C11: an empty unmatched partition writes no chunk file at all, whatever
\* max_rows is; a non-empty one with fewer than max_rows - 1 rows writes
\* exactly one file, which holds all of its rows.
C11_EmptyAndShort ==
    /\ weeding_set_rows_not_matched = <<>> => files_written = <<>>
    /\ (/\ pc = "writer_done"
        /\ weeding_set_rows_not_matched # <<>>
        /\ Len(weeding_set_rows_not_matched) < max_rows - 1)
           => /\ Len(files_written) = 1
              /\ files_written[1].rows
                     = <<headers_row>> \o weeding_set_rows_not_matched

\* C11 witness: a finished run on a short non-empty partition
C11_Witness ==
    /\ pc = "writer_done"
    /\ Len(weeding_set_rows_not_matched) = 2
    /\ max_rows = 4
    /\ Len(files_written) = 1

\* C10 witness: a finished run that wrote full chunks and a shorter last one
C10_Witness ==
    /\ pc = "writer_done"
    /\ Len(files_written) >= 3
    /\ max_rows >= 3
    /\ Len(DataRows(files_written[Len(files_written)])) < max_rows - 1
    /\ Len(DataRows(files_written[1])) = max_rows - 1

----------------------------------------------------------------------------
(* Properties of the index and of the search (under Spec).                 *)

\* a classification number with its space characters removed
RECURSIVE NormalizedNumber(_)
NormalizedNumber(raw) ==
    IF raw = <<>> THEN <<>>
    ELSE IF Head(raw) = " " THEN NormalizedNumber(Tail(raw))
    ELSE <<Head(raw)>> \o NormalizedNumber(Tail(raw))

\* the weeding-set file as given: its content rows are numbered 2..N
LastRowNumber == Len(weeding_set_file)
ContentRowNumbers == 2..LastRowNumber
NumberColumn == ListIndex(weeding_set_file[1], sudoc_number_header)
HeaderNameAbsent == \A i \in 1..Len(weeding_set_file[1]) :
                        weeding_set_file[1][i] # sudoc_number_header
WsNumber(n) == NormalizedNumber(weeding_set_file[n][NumberColumn + 1])

\* the weeding set was built without an exception
IndexBuilt == pc \in {"ready", "search_scan", "search_done"}

\* how often a row occurs in a list of rows
Occurrences(rows, row) == Cardinality({i \in 1..Len(rows) : rows[i] = row})
RowsOf(rows) == {rows[i] : i \in 1..Len(rows)}

\* the increasing sequence of the members of a set of ints
RECURSIVE Ascending(_)
Ascending(S) ==
    IF S = {} THEN <<>>
    ELSE LET least == CHOOSE x \in S : \A y \in S : x <= y
         IN <<least>> \o Ascending(S \ {least})

\* C3: after a search every content row is in exactly one of the two
\* partitions, so their lengths add up to N - 1, whatever the documents.
C3_PartitionTotal ==
    pc = "search_done" =>
        /\ Len(scu_rows_matched) + Len(scu_rows_not_matched) = LastRowNumber - 1
        /\ \A row \in RowsOf(scu_rows_matched) \cup RowsOf(scu_rows_not_matched)
                 \cup {weeding_set_file[n] : n \in ContentRowNumbers} :
              Occurrences(scu_rows_matched, row)
                  + Occurrences(scu_rows_not_matched, row)
              = Cardinality({n \in ContentRowNumbers : weeding_set_file[n] = row})

\* C3 witness: a finished search that split the rows into two non-empty parts
C3_Witness ==
    /\ pc = "search_done"
    /\ Len(reference_docs) = 2
    /\ Len(scu_rows_matched) >= 1
    /\ Len(scu_rows_not_matched) >= 1

\* rows of a scanned document that are neither the header row nor skipped
\* and pass the type filter (no filter configured, or the value is equal)
EligibleRows(doc) ==
    {i \in 0..(Len(doc.file) - 1) :
        /\ ~(doc.header_row_index # NoneInt /\ i = doc.header_row_index)
        /\ i >= doc.skip_rows
        /\ \/ doc.classification_type = NoneStr
           \/ doc.file[i + 1][doc.classification_type_column_index + 1]
                  = doc.classification_type}
DocNumber(doc, i) ==
    NormalizedNumber(doc.file[i + 1][doc.sudoc_number_column_index + 1])
RowsOfInterest(doc) == OrderedKeys(doc.rows_of_interest)

\* C4: an eligible row of a scanned document is a row of interest iff its
\* space-stripped number equals the space-stripped number of some content row
\* of the weeding set.
C4_MatchIffNormalizedEqual ==
    IndexBuilt =>
        \A d \in 1..Len(reference_docs) :
            LET doc == reference_docs[d] IN
            \A i \in EligibleRows(doc) :
                (i \in RowsOfInterest(doc))
                    <=> (\E n \in ContentRowNumbers : WsNumber(n) = DocNumber(doc, i))

\* C4 witness: a document with an eligible row recorded for a number written
\* with other spacing in the weeding set, and an eligible row not recorded
C4_Witness ==
    /\ IndexBuilt
    /\ \E d \in 1..Len(reference_docs) :
          LET doc == reference_docs[d] IN
          /\ \E i \in EligibleRows(doc) \cap RowsOfInterest(doc) :
                \E n \in ContentRowNumbers :
                    /\ WsNumber(n) = DocNumber(doc, i)
                    /\ weeding_set_file[n][NumberColumn + 1]
                           # doc.file[i + 1][doc.sudoc_number_column_index + 1]
          /\ EligibleRows(doc) \ RowsOfInterest(doc) # {}

\* the content rows whose number some row of interest of some document has
RowNumbersOfInterest ==
    {n \in ContentRowNumbers :
        \E d \in 1..Len(reference_docs) :
            \E i \in RowsOfInterest(reference_docs[d]) :
                DocNumber(reference_docs[d], i) = WsNumber(n)}

\* C5: after a search a weeding-set row is in the matched partition iff some
\* row of interest has its normalized number; rows sharing a number are all
\* matched by one reference row.
C5_MatchedIffRowOfInterest ==
    pc = "search_done" =>
        /\ scu_sudoc_row_nums_for_matches = RowNumbersOfInterest
        /\ \A row \in RowsOf(scu_rows_matched)
                 \cup {weeding_set_file[n] : n \in ContentRowNumbers} :
              Occurrences(scu_rows_matched, row)
              = Cardinality({n \in RowNumbersOfInterest : weeding_set_file[n] = row})

\* C5 witness: rows 2 and 3 share a number, one reference row matched both
C5_Witness ==
    /\ pc = "search_done"
    /\ LastRowNumber = 3
    /\ weeding_set_file[2] # weeding_set_file[3]
    /\ WsNumber(2) = WsNumber(3)
    /\ Len(reference_docs) = 1
    /\ Cardinality(RowsOfInterest(reference_docs[1])) = 1
    /\ scu_sudoc_row_nums_for_matches = {2, 3}
    /\ scu_rows_matched = <<weeding_set_file[2], weeding_set_file[3]>>
    /\ scu_rows_not_matched = <<>>

\* C6: with a non-null classification_type (the empty string included) a row
\* that is neither header nor skipped and whose type value differs is never a
\* row of interest and adds nothing to the matched set.
C6_TypeFilterDiscards ==
    IndexBuilt =>
        \A d \in 1..Len(reference_docs) :
            LET doc == reference_docs[d] IN
            \A i \in 0..(Len(doc.file) - 1) :
                (/\ doc.classification_type # NoneStr
                 /\ ~(doc.header_row_index # NoneInt /\ i = doc.header_row_index)
                 /\ i >= doc.skip_rows
                 /\ doc.file[i + 1][doc.classification_type_column_index + 1]
                        # doc.classification_type)
                    => i \notin RowsOfInterest(doc)

\* the str of the row numbers ns, joined by commas
RECURSIVE JoinRowNumbers(_)
JoinRowNumbers(ns) ==
    IF ns = <<>> THEN <<>>
    ELSE IF Len(ns) = 1 THEN FormatInt(ns[1])
    ELSE FormatInt(ns[1]) \o <<",">> \o JoinRowNumbers(Tail(ns))

RowNumbersWithNumber(k) == {n \in ContentRowNumbers : WsNumber(n) = k}
ParsedRowNums(k) ==
    LET fragments == Split(sudoc_number_to_row_nums[k])
    IN [i \in 1..Len(fragments) |-> ParseInt(fragments[i])]

\* C7: once the weeding set is built, sudoc_number_to_row_nums[k] is the
\* comma-joined list of exactly the numbers of the content rows with
\* normalized number k, in increasing order, rows numbered from 2.
C7_RowNumsString ==
    IndexBuilt =>
        \A k \in DOMAIN sudoc_number_to_row_nums :
            /\ ParsedRowNums(k) = Ascending(RowNumbersWithNumber(k))
            /\ sudoc_number_to_row_nums[k]
                   = JoinRowNumbers(Ascending(RowNumbersWithNumber(k)))

\* C7 witness: rows "A 123" and "A123" give "2,3" for key "A123"
C7_Witness ==
    /\ IndexBuilt
    /\ LastRowNumber = 3
    /\ weeding_set_file[2] = <<Str_A_123, Str_X>>
    /\ weeding_set_file[3] = <<Str_A123, Str_Y>>
    /\ DOMAIN sudoc_number_to_row_nums = {Str_A123}
    /\ sudoc_number_to_row_nums[Str_A123] = <<"2", ",", "3">>

\* C8: once the weeding set is built, the keys of sudoc_number_to_row_nums are
\* the set sudoc_numbers, every key has at least one row number, and
\* sudoc_row_num_to_row has exactly the keys 2..N, each with the raw row read
\* at that position.
C8_IndexShape ==
    IndexBuilt =>
        /\ DOMAIN sudoc_number_to_row_nums = sudoc_numbers
        /\ sudoc_numbers = {WsNumber(n) : n \in ContentRowNumbers}
        /\ \A k \in DOMAIN sudoc_number_to_row_nums :
              /\ Len(ParsedRowNums(k)) >= 1
              /\ \A i \in 1..Len(ParsedRowNums(k)) :
                    ParsedRowNums(k)[i] \in ContentRowNumbers
        /\ Len(sudoc_row_num_to_row) = LastRowNumber - 1
        /\ OrderedKeys(sudoc_row_num_to_row) = ContentRowNumbers
        /\ \A n \in ContentRowNumbers :
              OrderedGet(sudoc_row_num_to_row, n) = weeding_set_file[n]

\* C8 witness: a built index over a file with two equal content rows
C8_Witness ==
    /\ IndexBuilt
    /\ LastRowNumber = 3
    /\ weeding_set_file[2] = weeding_set_file[3]
    /\ Len(sudoc_row_num_to_row) = 2

\* C9: when the configured column name is absent from the header row, the
\* build fails with the schema error (list.index raises ValueError), whatever
\* the number of content rows, and before any reference document is scanned.
C9_SchemaError ==
    HeaderNameAbsent =>
        \/ pc = "ws_read"
        \/ pc = "raised" /\ err = "ValueError" /\ reference_docs = <<>>

\* the normalized numbers of the rows of interest of a document
NumbersOfInterest(doc) == {DocNumber(doc, i) : i \in RowsOfInterest(doc)}

\* C12: within one search, scanning a document only adds to the shared set of
\* matched row numbers and leaves every earlier document (its rows of
\* interest and its captured header) as it was.
C12_ScanIsCumulative ==
    [][pc = "search_scan" =>
          /\ scu_sudoc_row_nums_for_matches \subseteq scu_sudoc_row_nums_for_matches'
          /\ Len(reference_docs') >= Len(reference_docs)
          /\ \A i \in 1..Len(reference_docs) : reference_docs'[i] = reference_docs[i]]_vars

\* C12 witness: two scanned documents, each with rows of interest and a
\* captured header, where the second one matched rows the first had not
C12_Witness ==
    /\ pc = "search_scan"
    /\ Len(reference_docs) = 2
    /\ reference_docs[1].headers # NoneRow
    /\ reference_docs[1].rows_of_interest # <<>>
    /\ reference_docs[2].rows_of_interest # <<>>
    /\ \E n \in scu_sudoc_row_nums_for_matches :
          /\ WsNumber(n) \notin NumbersOfInterest(reference_docs[1])
          /\ WsNumber(n) \in NumbersOfInterest(reference_docs[2])
    /\ \E n \in scu_sudoc_row_nums_for_matches :
          WsNumber(n) \in NumbersOfInterest(reference_docs[1])

\* rows of a document that are neither the header row nor within the skipped
\* leading rows
ContentRows(doc) ==
    {i \in 0..(Len(doc.file) - 1) :
        /\ ~(doc.header_row_index # NoneInt /\ i = doc.header_row_index)
        /\ i >= doc.skip_rows}

\* C13: the row at header_row_index is captured as the document's headers and
\* is never a row of interest, whatever skip_rows is; rows below skip_rows
\* are never rows of interest; neither kind adds to the matched set.
C13_HeaderAndSkippedRows ==
    IndexBuilt =>
        /\ \A d \in 1..Len(reference_docs) :
              LET doc == reference_docs[d] IN
              /\ (doc.header_row_index # NoneInt
                     /\ doc.header_row_index < Len(doc.file))
                    => /\ doc.headers = doc.file[doc.header_row_index + 1]
                       /\ doc.header_row_index \notin RowsOfInterest(doc)
              /\ \A i \in RowsOfInterest(doc) : i >= doc.skip_rows
              /\ RowsOfInterest(doc) \subseteq ContentRows(doc)
        /\ \A n \in scu_sudoc_row_nums_for_matches :
              \E d \in 1..Len(reference_docs) :
                  \E i \in ContentRows(reference_docs[d]) :
                      DocNumber(reference_docs[d], i) = WsNumber(n)

\* C13 witness: a header row at or after skip_rows whose number is in the
\* index and passes the filter, in a document that has rows of interest
C13_Witness ==
    /\ IndexBuilt
    /\ \E d \in 1..Len(reference_docs) :
          LET doc == reference_docs[d] IN
          /\ doc.header_row_index # NoneInt
          /\ doc.header_row_index >= doc.skip_rows
          /\ doc.header_row_index < Len(doc.file)
          /\ ~TypeFilterOn(doc.classification_type)
          /\ DocNumber(doc, doc.header_row_index) \in sudoc_numbers
          /\ doc.headers = doc.file[doc.header_row_index + 1]
          /\ doc.rows_of_interest # <<>>
          /\ scu_sudoc_row_nums_for_matches # {}

\* the header rows (none or one) at the top of the output file of a document
HeaderRowsWritten(doc) ==
    IF doc.headers # NoneRow /\ Len(doc.headers) > 0 THEN 1 ELSE 0

\* C14: write_matches_to_file never fails its lookup: after any search every
\* row of interest is emitted with exactly two trailing columns, its 0-based
\* row index in the document and the comma-joined weeding-set row numbers of
\* its number.
C14_MatchesFile ==
    /\ err # "KeyError"
    /\ pc = "matches_written" =>
          /\ Len(matched_files) = Len(reference_docs)
          /\ \A d \in 1..Len(reference_docs) :
                LET doc == reference_docs[d]
                    h == HeaderRowsWritten(doc)
                IN
                /\ Len(matched_files[d]) = h + Len(doc.rows_of_interest)
                /\ \A j \in 1..Len(doc.rows_of_interest) :
                      LET entry == doc.rows_of_interest[j]
                          written == matched_files[d][h + j]
                      IN
                      /\ Len(written) = Len(entry.value) + 2
                      /\ SubSeq(written, 1, Len(entry.value)) = entry.value
                      /\ entry.value = doc.file[entry.key + 1]
                      /\ ParseInt(written[Len(written) - 1]) = entry.key
                      /\ written[Len(written)]
                             = JoinRowNumbers(Ascending(
                                   RowNumbersWithNumber(DocNumber(doc, entry.key))))

\* C14 witness: a written file with a header row and a row of interest whose
\* number has a space and belongs to two weeding-set rows
C14_Witness ==
    /\ pc = "matches_written"
    /\ \E d \in 1..Len(reference_docs) :
          LET doc == reference_docs[d] IN
          /\ HeaderRowsWritten(doc) = 1
          /\ \E j \in 1..Len(doc.rows_of_interest) :
                LET entry == doc.rows_of_interest[j] IN
                /\ entry.value[doc.sudoc_number_column_index + 1] = Str_A_123
                /\ matched_files[d][1 + j]
                       = entry.value \o <<FormatInt(entry.key), <<"2", ",", "3">>>>

\* the rows of the weeding-set file with the row numbers ns, in that order
RowsAt(ns) == [j \in 1..Len(ns) |-> weeding_set_file[ns[j]]]

\* C15: every call of search_fdlp_references starts from an empty
\* accumulator, and what it leaves is the result of a single search over the
\* documents of that call, however many calls came before.
C15_SearchStartsEmpty ==
    /\ [][num_searches' # num_searches =>
              /\ reference_docs' = <<>>
              /\ scu_sudoc_row_nums_for_matches' = {}
              /\ scu_rows_matched' = <<>>
              /\ scu_rows_not_matched' = <<>>]_vars
    /\ [](/\ pc = "search_scan" =>
                /\ scu_sudoc_row_nums_for_matches = RowNumbersOfInterest
                /\ scu_rows_matched = <<>>
                /\ scu_rows_not_matched = <<>>
          /\ pc = "search_done" =>
                /\ scu_sudoc_row_nums_for_matches = RowNumbersOfInterest
                /\ scu_rows_matched = RowsAt(Ascending(RowNumbersOfInterest))
                /\ scu_rows_not_matched
                       = RowsAt(Ascending(ContentRowNumbers
                                              \ RowNumbersOfInterest)))

\* C15 witness: a second search has finished with rows in both partitions
C15_Witness ==
    /\ pc = "search_done"
    /\ num_searches = 2
    /\ reference_docs # <<>>
    /\ scu_rows_matched # <<>>
    /\ scu_rows_not_matched # <<>>

\* C16: the partitioner puts a row in the matched sequence iff its row number
\* is in the matched set, otherwise in the unmatched one, and each sequence
\* lists its rows in increasing row-number order.
C16_PartitionerOrder ==
    pc = "search_done" =>
        /\ scu_rows_matched
               = RowsAt(Ascending(ContentRowNumbers
                                      \cap scu_sudoc_row_nums_for_matches))
        /\ scu_rows_not_matched
               = RowsAt(Ascending(ContentRowNumbers
                                      \ scu_sudoc_row_nums_for_matches))

\* C16 witness: matched and unmatched rows interleave in the file
C16_Witness ==
    /\ pc = "search_done"
    /\ \E a, b, c, d \in ContentRowNumbers :
          /\ a < b /\ b < c /\ c < d
          /\ {a, c} \subseteq scu_sudoc_row_nums_for_matches
          /\ {b, d} \cap scu_sudoc_row_nums_for_matches = {}
    /\ Len(scu_rows_matched) >= 2
    /\ Len(scu_rows_not_matched) >= 2

\* the fragments of all values of sudoc_number_to_row_nums
RowNumFragments ==
    UNION {{Split(sudoc_number_to_row_nums[k])[i] :
               i \in 1..Len(Split(sudoc_number_to_row_nums[k]))} :
           k \in DOMAIN sudoc_number_to_row_nums}

\* C17: during a search the matched set holds only content row numbers 2..N
\* and every fragment of every value of sudoc_number_to_row_nums is the
\* decimal form of such a number, so int() never fails while scanning.
C17_RowNumsParse ==
    /\ num_searches >= 1 => err # "ValueError"
    /\ (IndexBuilt \/ num_searches >= 1) =>
          /\ scu_sudoc_row_nums_for_matches \subseteq ContentRowNumbers
          /\ \A fragment \in RowNumFragments :
                /\ ParseInt(fragment) \in ContentRowNumbers
                /\ fragment = FormatInt(ParseInt(fragment))

\* C17 witness: a scan matched rows through a value with several fragments,
\* a two-digit one among them
C17_Witness ==
    /\ pc = "search_scan"
    /\ 11 \in scu_sudoc_row_nums_for_matches
    /\ \E k \in DOMAIN sudoc_number_to_row_nums :
          /\ Len(Split(sudoc_number_to_row_nums[k])) >= 3
          /\ <<"1", "1">> \in RowNumFragments

====
